---- MODULE Spec2Model ----
(***************************************************************************)
(* The optimisation engine of opytimizer: the Optimizer base class         *)
(* (core/optimizer.py) and the three algorithms GSA, BA and SBO            *)
(* (optimizers/science/gsa.py, optimizers/swarm/ba.py, swarm/sbo.py).      *)
(*                                                                         *)
(* Numbers.  Positions are one variable of one dimension and take integer  *)
(* values.  Hyperparameters, probabilities and random draws from [0,1) are *)
(* fixed-point numbers in units of 1/Scale (2.467 is 2467); a product of   *)
(* two of them is divided by Scale and rounded down.  NaN is the IEEE      *)
(* not-a-number: every comparison with it is false and every arithmetic    *)
(* operation on it yields it.                                              *)
(*                                                                         *)
(* Objects.  A position is a mutable array.  heap[k] (k >= 1) is the array *)
(* that agent k's position attribute is bound to, heap[0] is an array of   *)
(* the best agent's own, and bestRef names the array that                  *)
(* space.best_agent.position is bound to: 0, or k when it is the very      *)
(* array of agent k.  No statement of the code binds two population agents *)
(* to one array, so this is every sharing that can arise.                  *)
(*                                                                         *)
(* Loops.  Spec is the loop of run: the initial evaluation, then update,   *)
(* clip_by_bound, _evaluate and dump in each iteration.  It is driven by   *)
(* run itself, which calls self._update, or by a caller who performs the   *)
(* same statements and calls update by the name the class defines.         *)
(* SpecBuild is the construction of an optimizer from a caller's params,   *)
(* SpecMass the masses GSA computes for a sorted population.               *)
(***************************************************************************)
EXTENDS Integers, Sequences, FiniteSets, TLC

\* ---------------------------------------------------------------- bounds
NAgents == 3
MaxIter == 2
Ub == 2
Lb == 1 - Ub

Scale == 10 * 10 * 10

\* ------------------------------------------------- constants of the code
FloatMax == 1000000
NaN == 0 - (FloatMax + 1)
G_default == 2467
f_min_default == 0
f_max_default == 2000
A_default == 500
r_default == 500
BA_alpha == 900
alpha_default == 900
p_mutation_default == 50
z_default == 20

VARIABLES
    alg,          \* class of the optimizer object: "GSA", "BA" or "SBO"
    fn,           \* the objective: "py" returns Python floats, "np" numpy floats
    hp,           \* the optimizer's attributes (hyperparameters, hyperparams, built)
    n_iterations, \* space.n_iterations
    agents,       \* space.agents: the list of agents, each [id, fit]
    heap,         \* the position arrays
    bestRef,      \* the array space.best_agent.position is bound to
    bestFit,      \* space.best_agent.fit
    velocity,     \* GSA, BA: the velocity array of run
    frequency,    \* BA: the frequency array
    loudness,     \* BA: the loudness array
    pulse_rate,   \* BA: the pulse-rate array
    history,      \* the History of run: its snapshots
    t,            \* the iteration index
    driver,       \* who runs the loop: "run", or "caller" when the caller runs it himself
    pc,           \* "idle", or the statement of the loop that executes next
    err,          \* the exception the last operation raised, or "none"
    log,          \* the operations executed so far, each with the best fit it left
    walked,       \* BA: the agents that took the local random walk in the last update
    accepted,     \* BA: the agents whose solution the last update accepted
    mass,         \* GSA: what the last _calculate_mass returned
    sbo_probs     \* SBO: the selection probabilities of the last update

vars == <<alg, fn, hp, n_iterations, agents, heap, bestRef, bestFit, velocity,
          frequency, loudness, pulse_rate, history, t, driver, pc, err, log, walked,
          accepted, mass, sbo_probs>>

spaceVars == <<agents, heap, bestRef, bestFit>>
auxVars == <<velocity, frequency, loudness, pulse_rate>>

Ids == 1..NAgents

\* ------------------------------------------------------------ arithmetic
Add(a, b) == IF a = NaN \/ b = NaN THEN NaN ELSE a + b
Sub(a, b) == IF a = NaN \/ b = NaN THEN NaN ELSE a - b
\* a * b of a position-valued a and a fixed-point b
MulFix(a, b) == IF a = NaN \/ b = NaN THEN NaN ELSE (a * b) \div Scale
\* the IEEE comparisons
Lt(a, b) == a # NaN /\ b # NaN /\ a < b
Gt(a, b) == a # NaN /\ b # NaN /\ a > b

RECURSIVE SumSeq(_)
SumSeq(s) == IF s = <<>> THEN 0 ELSE Add(Head(s), SumSeq(Tail(s)))

\* The objective function: the sphere, sum of squares.  The callable is the
\* caller's; its result is a Python float or a numpy float.
function(x) == IF x = NaN THEN NaN ELSE x * x

InBounds(x) == x # NaN /\ Lb <= x /\ x <= Ub

\* np.clip of one component: both comparisons are false of NaN
Clip(x) == IF Lt(x, Lb) THEN Lb ELSE IF Gt(x, Ub) THEN Ub ELSE x

\* agent.position = v: the attribute of agent k is bound to a new array; an
\* array the best agent shared with it stays with the best agent
Rebind(h, br, k, v) ==
    [heap |-> [h EXCEPT ![k] = v, ![0] = IF br = k THEN h[k] ELSE h[0]],
     bestRef |-> IF br = k THEN 0 ELSE br]

\* agent.position[j] = v: a write into the array agent k is bound to
WriteInPlace(h, br, k, v) == [heap |-> [h EXCEPT ![k] = v], bestRef |-> br]

\* ------------------------------------------------------- Optimizer._evaluate
\* space.best_agent.position = agent.position: the best agent shares the array
alias_position(h, br, k) == [heap |-> h, bestRef |-> k]

\* space.best_agent.position = copy.deepcopy(agent.position)
deepcopy_position(h, br, k) == [heap |-> [h EXCEPT ![0] = h[k]], bestRef |-> 0]

\* if agent.fit != space.best_agent.fit
differs(f, b) == f # NaN /\ b # NaN /\ f # b

\* if agent.fit <= space.best_agent.fit
better_or_equal(f, b) == f # NaN /\ b # NaN /\ f <= b

\* if agent.fit < space.best_agent.fit
better(f, b) == Lt(f, b)

RECURSIVE EvaluateFrom(_, _)
EvaluateFrom(i, s) ==
    IF i > Len(s.agents) THEN s
    ELSE LET a == s.agents[i]
             f == function(s.heap[a.id])
             s1 == [s EXCEPT !.agents[i].fit = f]
         IN IF better(f, s.bestFit)
            THEN LET c == deepcopy_position(s.heap, s.bestRef, a.id)
                 IN EvaluateFrom(i + 1, [s1 EXCEPT !.heap = c.heap,
                                                   !.bestRef = c.bestRef,
                                                   !.bestFit = f])
            ELSE EvaluateFrom(i + 1, s1)

SpaceState == [agents |-> agents, heap |-> heap, bestRef |-> bestRef, bestFit |-> bestFit]

\* the log after operation op left the best fit b
Logged(op, b) == Append(log, [op |-> op, best |-> b])

_evaluate ==
    /\ pc \in {"run_evaluate0", "run_evaluate"}
    /\ LET s == EvaluateFrom(1, SpaceState)
       IN /\ agents' = s.agents
          /\ heap' = s.heap
          /\ bestRef' = s.bestRef
          /\ bestFit' = s.bestFit
          /\ log' = Logged("evaluate", s.bestFit)
    /\ pc' = IF pc = "run_evaluate0" THEN "run_history" ELSE "run_dump"
    /\ err' = "none"
    /\ UNCHANGED <<alg, fn, hp, n_iterations, auxVars, history, t, driver, walked,
                   accepted, mass, sbo_probs>>

\* ------------------------------------------------ Space.clip_by_bound, History.dump
\* for every agent: agent.position = clip(agent.position, lb, ub)
RECURSIVE ClipFrom(_, _)
ClipFrom(i, s) ==
    IF i > Len(s.agents) THEN s
    ELSE LET k == s.agents[i].id
             c == Rebind(s.heap, s.bestRef, k, Clip(s.heap[k]))
         IN ClipFrom(i + 1, [s EXCEPT !.heap = c.heap, !.bestRef = c.bestRef])

clip_by_bound ==
    /\ pc = "run_clip"
    /\ LET s == ClipFrom(1, SpaceState)
       IN /\ heap' = s.heap
          /\ bestRef' = s.bestRef
    /\ pc' = "run_evaluate"
    /\ err' = "none"
    /\ log' = Logged("clip", bestFit)
    /\ UNCHANGED <<alg, fn, hp, n_iterations, agents, bestFit, auxVars, history, t,
                   driver, walked, accepted, mass, sbo_probs>>

\* one snapshot: copies of every agent's position and fit, in list order
Snapshot == [i \in 1..Len(agents) |-> <<heap[agents[i].id], agents[i].fit>>]

dump ==
    /\ pc = "run_dump"
    /\ history' = Append(history, Snapshot)
    /\ t' = t + 1
    /\ pc' = "run_loop"
    /\ err' = "none"
    /\ log' = Logged("dump", bestFit)
    /\ UNCHANGED <<alg, fn, hp, n_iterations, spaceVars, auxVars, driver, walked,
                   accepted, mass, sbo_probs>>

\* ------------------------------------------------------------ method lookup
Methods(c) ==
    CASE c = "GSA" -> {"_calculate_mass", "_calculate_force", "_update_velocity",
                       "_update_position", "update", "run"}
      [] c = "BA" -> {"_update_frequency", "_update_velocity", "_update_position",
                      "update", "run"}
      [] c = "SBO" -> {"update", "run"}
      [] c = "Optimizer" -> {"_build", "_update", "_evaluate", "run"}

\* self.name of an object of class c: the class's own method, else the parent's
Resolve(c, name) ==
    IF name \in Methods(c) THEN c
    ELSE IF name \in Methods("Optimizer") THEN "Optimizer"
    ELSE "AttributeError"

\* the arguments run passes to self._update besides self
UpdateArgs(c) == CASE c = "GSA" -> 3 [] c = "BA" -> 8 [] c = "SBO" -> 4

\* the name the loop calls: run calls self._update(...), a caller who runs the
\* loop himself calls optimizer.update(...)
UpdateName == IF driver = "run" THEN "_update" ELSE "update"

\* the loop is at its call of the update, and the call is the class's own
UpdateCalled ==
    /\ pc = "run_loop"
    /\ t < n_iterations
    /\ Resolve(alg, UpdateName) = alg

\* Optimizer._update(self): the call of run reaches it with arguments it does
\* not take; its body raises NotImplementedError
_update ==
    /\ pc = "run_loop"
    /\ t < n_iterations
    /\ Resolve(alg, UpdateName) = "Optimizer"
    /\ err' = IF UpdateArgs(alg) > 0 THEN "TypeError" ELSE "NotImplementedError"
    /\ pc' = "aborted"
    /\ log' = Logged("_update", bestFit)
    /\ UNCHANGED <<alg, fn, hp, n_iterations, spaceVars, auxVars, history, t, driver,
                   walked, accepted, mass, sbo_probs>>

\* ---------------------------------------------------- the optimizer's attributes
Unset == NaN - 1
NonNumeric == NaN - 2
AttrNames == {"G", "f_min", "f_max", "A", "r", "alpha", "p_mutation", "z", "extra"}
NoParams == [kind |-> "none", items |-> <<>>]

\* __init__ of the three classes up to the call of build: Optimizer.__init__
\* sets hyperparams = None and built = False, the class sets its defaults
Defaults(c) ==
    [attr |-> [a \in AttrNames |->
                  CASE c = "GSA" /\ a = "G" -> G_default
                    [] c = "BA" /\ a = "f_min" -> f_min_default
                    [] c = "BA" /\ a = "f_max" -> f_max_default
                    [] c = "BA" /\ a = "A" -> A_default
                    [] c = "BA" /\ a = "r" -> r_default
                    [] c = "SBO" /\ a = "alpha" -> alpha_default
                    [] c = "SBO" /\ a = "p_mutation" -> p_mutation_default
                    [] c = "SBO" /\ a = "z" -> z_default
                    [] OTHER -> Unset],
     hyperparams |-> NoParams,
     built |-> FALSE,
     params |-> NoParams]

\* the property setters: the error the assignment raises, or "none"
G_setter(v) ==
    IF v = NonNumeric THEN "TypeError" ELSE IF v < 0 THEN "ValueError" ELSE "none"

f_min_setter(v) ==
    IF v = NonNumeric THEN "TypeError" ELSE IF v < 0 THEN "ValueError" ELSE "none"

f_max_setter(v, f_min) ==
    IF v = NonNumeric THEN "TypeError"
    ELSE IF v < 0 THEN "ValueError"
    ELSE IF v < f_min THEN "ValueError"
    ELSE "none"

A_setter(v) ==
    IF v = NonNumeric THEN "TypeError" ELSE IF v < 0 THEN "ValueError" ELSE "none"

r_setter(v) ==
    IF v = NonNumeric THEN "TypeError" ELSE IF v < 0 THEN "ValueError" ELSE "none"

alpha_setter(v) ==
    IF v = NonNumeric THEN "TypeError" ELSE IF v < 0 THEN "ValueError" ELSE "none"

\* p_mutation with the upper limit left out
p_mutation_setter_unbounded(v) ==
    IF v = NonNumeric THEN "TypeError" ELSE IF v < 0 THEN "ValueError" ELSE "none"

p_mutation_setter(v) ==
    IF v = NonNumeric THEN "TypeError"
    ELSE IF v < 0 \/ v > Scale THEN "ValueError"
    ELSE "none"

z_setter(v) ==
    IF v = NonNumeric THEN "TypeError"
    ELSE IF v < 0 \/ v > Scale THEN "ValueError"
    ELSE "none"

\* the names that are properties with a setter in class c
Properties(c) ==
    CASE c = "GSA" -> {"G"}
      [] c = "BA" -> {"f_min", "f_max", "A", "r"}
      [] c = "SBO" -> {"alpha", "p_mutation", "z"}

\* setattr(self, k, v) on an object of class c with the attributes attr: the
\* setter of a property, a plain attribute for any other name
SetAttr(c, attr, k, v) ==
    LET e == IF k \notin Properties(c) THEN "none"
             ELSE CASE k = "G" -> G_setter(v)
                    [] k = "f_min" -> f_min_setter(v)
                    [] k = "f_max" -> f_max_setter(v, attr["f_min"])
                    [] k = "A" -> A_setter(v)
                    [] k = "r" -> r_setter(v)
                    [] k = "alpha" -> alpha_setter(v)
                    [] k = "p_mutation" -> p_mutation_setter(v)
                    [] k = "z" -> z_setter(v)
    IN [err |-> e, attr |-> IF e = "none" THEN [attr EXCEPT ![k] = v] ELSE attr]

\* ------------------------------------------------------------ Optimizer._build
\* for k, v in hyperparams.items(): setattr(self, k, v), from item i on
RECURSIVE ApplyFrom(_, _, _, _)
ApplyFrom(c, attr, items, i) ==
    IF i > Len(items) THEN [err |-> "none", attr |-> attr]
    ELSE LET res == SetAttr(c, attr, items[i][1], items[i][2])
         IN IF res.err # "none" THEN res ELSE ApplyFrom(c, res.attr, items, i + 1)

\* _build that validates every item before it assigns any
Build_atomic(c, o, hyperparams) ==
    IF hyperparams.kind = "other"
    THEN [err |-> "TypeError", o |-> o]
    ELSE LET res == ApplyFrom(c, o.attr, hyperparams.items, 1)
         IN IF res.err # "none" THEN [err |-> res.err, o |-> o]
            ELSE [err |-> "none",
                  o |-> [o EXCEPT !.hyperparams = hyperparams,
                                  !.attr = res.attr,
                                  !.built = TRUE]]

\* _build(hyperparams) on the object o of class c: the object it leaves and
\* the error it raises
Build(c, o, hyperparams) ==
    IF hyperparams.kind = "other"
    THEN [err |-> "TypeError", o |-> o]
    ELSE LET res == ApplyFrom(c, o.attr, hyperparams.items, 1)
         IN [err |-> res.err,
             o |-> [o EXCEPT !.hyperparams = hyperparams,
                             !.attr = res.attr,
                             !.built = IF res.err = "none" THEN TRUE ELSE @]]

\* ----------------------------------------------------------------------- GSA
NoMass == [err |-> "none", raw |-> <<>>, norm |-> <<>>]

\* agents.sort(key=lambda x: x.fit): a stable sort, ascending
RECURSIVE InsertByFit(_, _)
InsertByFit(a, s) ==
    IF s = <<>> THEN <<a>>
    ELSE IF Lt(a.fit, s[Len(s)].fit)
         THEN Append(InsertByFit(a, SubSeq(s, 1, Len(s) - 1)), s[Len(s)])
         ELSE Append(s, a)

RECURSIVE SortByFit(_)
SortByFit(s) ==
    IF s = <<>> THEN <<>>
    ELSE InsertByFit(s[Len(s)], SortByFit(SubSeq(s, 1, Len(s) - 1)))

\* a rational <<n, d>> with d > 0; NaN is <<NaN, 1>>
RatNaN == <<NaN, 1>>
RECURSIVE Gcd(_, _)
Gcd(a, b) == IF b = 0 THEN a ELSE Gcd(b, a % b)
Abs(a) == IF a < 0 THEN 0 - a ELSE a
Rat(n, d) ==
    LET g == Gcd(Abs(n), Abs(d))
    IN IF d < 0 THEN <<(0 - n) \div g, (0 - d) \div g>> ELSE <<n \div g, d \div g>>
RatDiv(a, b) == Rat(a[1] * b[2], a[2] * b[1])
RatEq(a, b) == a[1] # NaN /\ b[1] # NaN /\ a[1] * b[2] = b[1] * a[2]
RatLe(a, b) == a[1] # NaN /\ b[1] # NaN /\ a[1] * b[2] <= b[1] * a[2]
RECURSIVE RatSum(_)
RatSum(s) ==
    IF s = <<>> THEN <<0, 1>>
    ELSE LET r == RatSum(Tail(s))
         IN Rat(Head(s)[1] * r[2] + r[1] * Head(s)[2], Head(s)[2] * r[2])

Fits(ags) == [i \in 1..Len(ags) |-> ags[i].fit]
HasNaN(s) == \E i \in 1..Len(s) : s[i] = NaN

\* best and worst exchanged
_calculate_mass_swapped(ags) ==
    LET best == ags[Len(ags)].fit
        worst == ags[1].fit
        raw == [i \in 1..Len(ags) |-> Rat(ags[i].fit - worst, best - worst)]
        total == RatSum(raw)
    IN IF best = worst \/ total[1] = 0
       THEN [err |-> "ZeroDivisionError", raw |-> <<>>, norm |-> <<>>]
       ELSE [err |-> "none", raw |-> raw,
             norm |-> [i \in 1..Len(ags) |-> RatDiv(raw[i], total)]]

\* GSA._calculate_mass on a list sorted by fit.  A zero best - worst raises
\* ZeroDivisionError when the fits are Python floats and gives 0/0 = NaN for
\* every agent when they are numpy floats.
_calculate_mass(ags) ==
    LET best == ags[1].fit
        worst == ags[Len(ags)].fit
        allNaN == [i \in 1..Len(ags) |-> RatNaN]
    IN IF HasNaN(Fits(ags))
       THEN [err |-> "none", raw |-> allNaN, norm |-> allNaN]
       ELSE IF best = worst
       THEN IF fn = "py"
            THEN [err |-> "ZeroDivisionError", raw |-> <<>>, norm |-> <<>>]
            ELSE [err |-> "none", raw |-> allNaN, norm |-> allNaN]
       ELSE LET raw == [i \in 1..Len(ags) |-> Rat(ags[i].fit - worst, best - worst)]
                total == RatSum(raw)
            IN IF total[1] = 0
               THEN [err |-> "none", raw |-> raw, norm |-> allNaN]
               ELSE [err |-> "none", raw |-> raw,
                     norm |-> [i \in 1..Len(ags) |-> RatDiv(raw[i], total)]]

\* a rational in [0, 1] as a fixed-point number
Fix(r) == IF r[1] = NaN THEN NaN ELSE (r[1] * Scale) \div r[2]

\* (agents[j].position - agents[i].position) / (distance + EPSILON)
Direction(pi, pj) ==
    IF pi = NaN \/ pj = NaN THEN NaN
    ELSE IF pj > pi THEN Scale ELSE IF pj < pi THEN 0 - Scale ELSE 0

\* GSA._calculate_force: row i, with the one random number rF of the call
_calculate_force(ags, h, m, gravity, rF, i) ==
    MulFix(rF, SumSeq([j \in 1..Len(ags) |->
        MulFix(MulFix(gravity, MulFix(Fix(m[i]), Fix(m[j]))),
               Direction(h[ags[i].id], h[ags[j].id]))]))

\* GSA._update_velocity: acceleration = force / (mass + EPSILON)
GSA_update_velocity(force, m, v, rV) ==
    LET acceleration ==
            IF force = NaN \/ Fix(m) = NaN THEN NaN
            ELSE IF Fix(m) = 0 THEN 0
            ELSE ((force * Scale) \div Fix(m)) \div Scale
    IN Add(MulFix(v, rV), acceleration)

\* GSA._update_position
GSA_update_position(position, v) == Add(position, v)

\* the draws of generate_uniform_random_number the model takes
UniformDraws == {0, Scale - 1}
VelocityDraws == {0, Scale \div 2}

RECURSIVE GSAFrom(_, _, _, _, _)
GSAFrom(i, s, m, force, rV) ==
    IF i > Len(s.agents) THEN s
    ELSE LET k == s.agents[i].id
             v == GSA_update_velocity(force[i], m[i], s.velocity[i], rV[i])
             c == Rebind(s.heap, s.bestRef, k, GSA_update_position(s.heap[k], v))
         IN GSAFrom(i + 1, [s EXCEPT !.velocity[i] = v, !.heap = c.heap,
                                     !.bestRef = c.bestRef], m, force, rV)

\* after update: the loop goes on to clip, or an exception ends it
AfterUpdate(e) ==
    /\ err' = e
    /\ pc' = IF e = "none" THEN "run_clip" ELSE "aborted"
    /\ log' = Logged("update", bestFit)

GSA_update ==
    /\ alg = "GSA"
    /\ UpdateCalled
    /\ LET sorted == SortByFit(agents)
           gravity == (hp.attr["G"] \div (t + 1))
           m == _calculate_mass(sorted)
       IN /\ agents' = sorted
          /\ mass' = m
          /\ IF m.err # "none"
             THEN /\ AfterUpdate(m.err)
                  /\ UNCHANGED <<heap, bestRef, velocity>>
             ELSE \E rF \in UniformDraws, rV \in [1..Len(agents) -> VelocityDraws] :
                    LET force == [i \in 1..Len(sorted) |->
                                     _calculate_force(sorted, heap, m.norm, gravity, rF, i)]
                        s == GSAFrom(1, [agents |-> sorted, heap |-> heap,
                                         bestRef |-> bestRef, velocity |-> velocity],
                                     m.norm, force, rV)
                    IN /\ heap' = s.heap
                       /\ bestRef' = s.bestRef
                       /\ velocity' = s.velocity
                       /\ AfterUpdate("none")
    /\ UNCHANGED <<alg, fn, hp, n_iterations, bestFit, frequency, loudness,
                   pulse_rate, history, t, driver, walked, accepted, sbo_probs>>

\* ------------------------------------------------------------------------ BA
\* BA._update_frequency: min + (min - max) * beta
BA_update_frequency(min_frequency, max_frequency, beta) ==
    Add(min_frequency, MulFix(Sub(min_frequency, max_frequency), beta))

\* BA._update_velocity: velocity + (position - best_position) * frequency
BA_update_velocity(position, best_position, freq, v) ==
    Add(v, MulFix(Sub(position, best_position), freq))

\* BA._update_position
BA_update_position(position, v) == Add(position, v)

\* np.exp(-alpha * iteration) for alpha = 0.9, in thousandths
ExpNeg(iteration) ==
    CASE iteration = 0 -> 1000
      [] iteration = 1 -> 407
      [] iteration = 2 -> 165
      [] iteration = 3 -> 67
      [] OTHER -> 27

\* the step 0.001 * e * np.mean(loudness) of the random walk on the grid of
\* positions: the sign of e, and no step when every loudness is 0
WalkStep(e, loud) == IF SumSeq(loud) = 0 THEN 0 ELSE e

\* if p < pulse_rate[i]
takes_walk_flipped(p, rate) == p < rate

\* if p > pulse_rate[i]
takes_walk(p, rate) == p > rate

\* the draws of one agent: beta and p uniform, e gaussian
BetaDraws == {0, (3 * Scale) \div 4}
PDraws == {Scale \div 10, Scale - 1}
GaussDraws == {0 - 1, 1}
BADraws == [beta : BetaDraws, p : PDraws, e : GaussDraws]
\* the draws of one update: the model gives every agent the same three numbers
BADrawVectors == {[i \in Ids |-> x] : x \in BADraws}

\* The loop of BA.update from agent i on.  s.bp and s.bf are the position and
\* fit of the local name best_agent, which the acceptance rebinds to a copy of
\* the agent; space.best_agent is not written.
RECURSIVE BAFrom(_, _, _)
BAFrom(i, s, d) ==
    IF i > Len(s.agents) THEN s
    ELSE LET k == s.agents[i].id
             f == BA_update_frequency(hp.attr["f_min"], hp.attr["f_max"], d[i].beta)
             v == BA_update_velocity(s.heap[k], s.bp, f, s.velocity[i])
             moved == BA_update_position(s.heap[k], v)
             walk == takes_walk(d[i].p, s.pulse_rate[i])
             pos == IF walk THEN Add(s.bp, WalkStep(d[i].e, s.loudness)) ELSE moved
             c1 == Rebind(s.heap, s.bestRef, k, moved)
             c2 == IF walk THEN Rebind(c1.heap, c1.bestRef, k, pos) ELSE c1
             c3 == Rebind(c2.heap, c2.bestRef, k, Clip(pos))
             fit == function(Clip(pos))
             accept == d[i].p < s.loudness[i] /\ Lt(fit, s.bf)
         IN BAFrom(i + 1,
                   [s EXCEPT !.heap = c3.heap,
                             !.bestRef = c3.bestRef,
                             !.agents[i].fit = fit,
                             !.frequency[i] = f,
                             !.velocity[i] = v,
                             !.walked = IF walk THEN @ \cup {k} ELSE @,
                             !.accepted = IF accept THEN @ \cup {k} ELSE @,
                             !.bp = IF accept THEN Clip(pos) ELSE @,
                             !.bf = IF accept THEN fit ELSE @,
                             !.pulse_rate[i] =
                                 IF accept
                                 THEN MulFix(hp.attr["r"], Scale - ExpNeg(t))
                                 ELSE @,
                             !.loudness[i] =
                                 IF accept THEN MulFix(hp.attr["A"], BA_alpha) ELSE @],
                   d)

\* space.best_agent.position and .fit assigned from the accepted agent
BA_space_written(s, bf) ==
    [heap |-> [s.heap EXCEPT ![s.bestRef] = s.bp], bestRef |-> s.bestRef, bestFit |-> s.bf]

\* The space after the loop of BA.update: best_agent = copy.deepcopy(agent)
\* rebinds the local name, so space.best_agent is the object it was, with the
\* fit bf it had.
BA_space(s, bf) == [heap |-> s.heap, bestRef |-> s.bestRef, bestFit |-> bf]

BA_update ==
    /\ alg = "BA"
    /\ UpdateCalled
    /\ \E d \in BADrawVectors :
         LET s == BAFrom(1, [agents |-> agents, heap |-> heap, bestRef |-> bestRef,
                             velocity |-> velocity, frequency |-> frequency,
                             loudness |-> loudness, pulse_rate |-> pulse_rate,
                             walked |-> {}, accepted |-> {}, bp |-> heap[bestRef],
                             bf |-> bestFit], d)
             sp == BA_space(s, bestFit)
         IN /\ agents' = s.agents
            /\ heap' = sp.heap
            /\ bestRef' = sp.bestRef
            /\ bestFit' = sp.bestFit
            /\ velocity' = s.velocity
            /\ frequency' = s.frequency
            /\ loudness' = s.loudness
            /\ pulse_rate' = s.pulse_rate
            /\ walked' = s.walked
            /\ accepted' = s.accepted
    /\ AfterUpdate("none")
    /\ UNCHANGED <<alg, fn, hp, n_iterations, history, t, driver, mass, sbo_probs>>

\* ----------------------------------------------------------------------- SBO
\* 1 + fit for a fit >= 0, else 1 + abs(fit)
FitnessWeight_uninverted(fit) == IF fit >= 0 THEN Rat(1 + fit, 1) ELSE Rat(1 - fit, 1)

\* 1 / (1 + fit) for a fit >= 0, else 1 + abs(fit)
FitnessWeight(fit) == IF fit >= 0 THEN Rat(1, 1 + fit) ELSE Rat(1 - fit, 1)

\* probs = [fit / total_fitness for fit in fitness], as exact rationals
Probs(ags) ==
    LET fitness == [i \in 1..Len(ags) |-> FitnessWeight(ags[i].fit)]
        total_fitness == RatSum(fitness)
    IN [i \in 1..Len(ags) |-> RatDiv(fitness[i], total_fitness)]

\* lambda_k = alpha / (1 + probs[s])
Lambda(alpha, prob) == (alpha * Scale) \div (Scale + prob)

\* lambda_k * ((agents[s].position[j] + best_agent.position[j]) / 2 - agent.position[j])
\* rounded down to the grid of positions
SBOStep(lambda_k, donor, best, position) ==
    (lambda_k * (donor + best - 2 * position)) \div (2 * Scale)

\* the draws of one update: the agent generate_choice_distribution selects for
\* each agent, and for all agents alike whether r1 < p_mutation and the sign of
\* the gaussian step sigma[j] * e on the grid
MutationDraws == {0 - 1, 0, 1}
SBODraws == [s : [Ids -> Ids], m : MutationDraws]

\* The loop of SBO.update from agent i on: the decision variable is written in
\* place, twice when it mutates; clip_by_bound and the fit follow.
RECURSIVE SBOFrom(_, _, _, _)
SBOFrom(i, st, probs, d) ==
    IF i > Len(st.agents) THEN st
    ELSE LET k == st.agents[i].id
             donor == st.agents[d.s[i]].id
             lambda_k == Lambda(hp.attr["alpha"], Fix(probs[d.s[i]]))
             p1 == st.heap[k] + SBOStep(lambda_k, st.heap[donor], st.heap[st.bestRef],
                                        st.heap[k])
             w1 == WriteInPlace(st.heap, st.bestRef, k, p1)
             w2 == IF d.m # 0
                   THEN WriteInPlace(w1.heap, w1.bestRef, k, w1.heap[k] + d.m)
                   ELSE w1
             c == Rebind(w2.heap, w2.bestRef, k, Clip(w2.heap[k]))
         IN SBOFrom(i + 1,
                    [st EXCEPT !.heap = c.heap,
                               !.bestRef = c.bestRef,
                               !.agents[i].fit = function(c.heap[k])],
                    probs, d)

SBO_update ==
    /\ alg = "SBO"
    /\ UpdateCalled
    /\ \E d \in SBODraws :
         LET st == SBOFrom(1, [agents |-> agents, heap |-> heap, bestRef |-> bestRef],
                           Probs(agents), d)
         IN /\ agents' = st.agents
            /\ heap' = st.heap
            /\ bestRef' = st.bestRef
    /\ sbo_probs' = Probs(agents)
    /\ AfterUpdate("none")
    /\ UNCHANGED <<alg, fn, hp, n_iterations, bestFit, auxVars, history, t, driver,
                   walked, accepted, mass>>

\* ----------------------------------------------------------------------- run
Zeros == [i \in Ids |-> 0]
Uniform(v) == [i \in Ids |-> v]

\* the values the model draws for an initial loudness and pulse rate
ArrayDraws == {0, Scale \div 4}

\* run, up to its first evaluation: the arrays of the algorithm, drawn as run
\* draws them
run_begin ==
    /\ pc = "idle"
    /\ driver' = "run"
    /\ IF alg = "BA"
       THEN /\ frequency' = Uniform(hp.attr["f_min"])  \* update draws it anew
            /\ \E a \in {x \in ArrayDraws : x = 0 \/ x < hp.attr["A"]} :
                 loudness' = Uniform(a)
            /\ \E rate \in {x \in ArrayDraws : x = 0 \/ x < hp.attr["r"]} :
                 pulse_rate' = Uniform(rate)
       ELSE UNCHANGED <<frequency, loudness, pulse_rate>>
    /\ velocity' = IF alg = "SBO" THEN velocity ELSE Zeros
    /\ pc' = "run_evaluate0"
    /\ UNCHANGED <<alg, fn, hp, n_iterations, spaceVars, history, t, err, log,
                   walked, accepted, mass, sbo_probs>>

\* A caller who runs the same loop himself: he evaluates, then calls update,
\* clip_by_bound, _evaluate and dump in turn, passing update arrays of his own.
caller_begin ==
    /\ pc = "idle"
    /\ driver' = "caller"
    /\ IF alg = "BA"
       THEN /\ frequency' = Uniform(hp.attr["f_min"])
            /\ \E a \in ArrayDraws : loudness' = Uniform(a)
            /\ \E rate \in ArrayDraws \cup {Scale} : pulse_rate' = Uniform(rate)
       ELSE UNCHANGED <<frequency, loudness, pulse_rate>>
    /\ velocity' = IF alg = "SBO" THEN velocity ELSE Zeros
    /\ pc' = "run_evaluate0"
    /\ UNCHANGED <<alg, fn, hp, n_iterations, spaceVars, history, t, err, log,
                   walked, accepted, mass, sbo_probs>>

\* history = h.History(store_best_only)
run_history ==
    /\ pc = "run_history"
    /\ history' = <<>>
    /\ pc' = "run_loop"
    /\ UNCHANGED <<alg, fn, hp, n_iterations, spaceVars, auxVars, t, driver, err,
                   log, walked, accepted, mass, sbo_probs>>

\* for t in range(n_iterations - 1)
run_return_early ==
    /\ pc = "run_loop"
    /\ t + 1 >= n_iterations
    /\ pc' = "done"
    /\ UNCHANGED <<alg, fn, hp, n_iterations, spaceVars, auxVars, history, t, driver,
                   err, log, walked, accepted, mass, sbo_probs>>

\* the loop is exhausted: return history
run_return ==
    /\ pc = "run_loop"
    /\ t >= n_iterations
    /\ pc' = "done"
    /\ UNCHANGED <<alg, fn, hp, n_iterations, spaceVars, auxVars, history, t, driver,
                   err, log, walked, accepted, mass, sbo_probs>>

\* ---------------------------------------------------------------------- Spec
\* The optimizer as its constructor leaves it (no params) and a space of
\* NAgents agents at positions within the bounds, none evaluated yet.
Init ==
    /\ alg \in {"GSA", "BA", "SBO"}
    /\ fn \in (IF alg = "GSA" THEN {"py", "np"} ELSE {"np"})
    /\ hp = [Defaults(alg) EXCEPT !.built = TRUE]
    /\ n_iterations \in 0..MaxIter
    /\ agents = [i \in Ids |-> [id |-> i, fit |-> FloatMax]]
    /\ heap \in {h \in [0..NAgents -> Lb..Ub] : h[0] = 0}
    /\ bestRef = 0
    /\ bestFit = FloatMax
    /\ velocity = <<>>
    /\ frequency = <<>>
    /\ loudness = <<>>
    /\ pulse_rate = <<>>
    /\ history = <<>>
    /\ t = 0
    /\ driver = "none"
    /\ pc = "idle"
    /\ err = "none"
    /\ log = <<>>
    /\ walked = {}
    /\ accepted = {}
    /\ mass = NoMass
    /\ sbo_probs = <<>>

Next ==
    \/ run_begin
    \/ caller_begin
    \/ _evaluate
    \/ run_history
    \/ _update
    \/ GSA_update
    \/ BA_update
    \/ SBO_update
    \/ clip_by_bound
    \/ dump
    \/ run_return

Spec == Init /\ [][Next]_vars

\* ------------------------------------------------------- the configuration
\* the most items of a hyperparams mapping
MaxParams == 2

\* the values a caller supplies: not a number, -0.5, 0, 0.5, 1.5
ParamValues == {NonNumeric, 0 - (Scale \div 2), 0, Scale \div 2, (3 * Scale) \div 2}

\* the mappings of at most MaxParams items over the properties of class c and
\* one more name, as the sequences of their items in order
Mappings(c) ==
    LET keys == Properties(c) \cup {"extra"}
        pairs == {<<k, v>> : k \in keys, v \in ParamValues}
        seqs == UNION {[1..n -> pairs] : n \in 0..MaxParams}
    IN {q \in seqs : \A i, j \in 1..Len(q) : i # j => q[i][1] # q[j][1]}

\* what a caller passes as params: nothing, a mapping, or something else
ParamInputs(c) ==
    {NoParams, [kind |-> "other", items |-> <<>>]}
        \cup {[kind |-> "dict", items |-> q] : q \in Mappings(c)}

\* self.build(params), the last statement of the constructor
_build ==
    /\ pc = "new"
    /\ LET res == Build(alg, hp, hp.params)
       IN /\ hp' = res.o
          /\ err' = res.err
          /\ pc' = IF res.err = "none" THEN "idle" ELSE "failed"
    /\ UNCHANGED <<alg, fn, n_iterations, spaceVars, auxVars, history, t, driver,
                   log, walked, accepted, mass, sbo_probs>>

\* The constructor of a class has set its defaults and is about to call build
\* with the caller's params; a space of NAgents agents waits to be optimized.
InitBuild ==
    /\ alg \in {"GSA", "BA", "SBO"}
    /\ fn = "np"
    /\ \E params \in ParamInputs(alg) : hp = [Defaults(alg) EXCEPT !.params = params]
    /\ n_iterations = 0
    /\ agents = [i \in Ids |-> [id |-> i, fit |-> FloatMax]]
    /\ heap = [i \in 0..NAgents |-> IF i = 0 THEN 0 ELSE Ub]
    /\ bestRef = 0
    /\ bestFit = FloatMax
    /\ velocity = <<>>
    /\ frequency = <<>>
    /\ loudness = <<>>
    /\ pulse_rate = <<>>
    /\ history = <<>>
    /\ t = 0
    /\ driver = "none"
    /\ pc = "new"
    /\ err = "none"
    /\ log = <<>>
    /\ walked = {}
    /\ accepted = {}
    /\ mass = NoMass
    /\ sbo_probs = <<>>

\* the construction, and run as far as its first evaluation
NextBuild ==
    \/ _build
    \/ run_begin
    \/ _evaluate

SpecBuild == InitBuild /\ [][NextBuild]_vars

\* ---------------------------------------------------- the masses of a population
\* the fits of the populations _calculate_mass is applied to
FitDraws == {0, 1, 2, 4, 10}

\* the lists of 2 to NAgents fits in ascending order
SortedFits ==
    {q \in UNION {[1..n -> FitDraws] : n \in 2..NAgents} :
        \A i \in 1..(Len(q) - 1) : q[i] <= q[i + 1]}

\* mass = self._calculate_mass(agents)
GSA_calculate_mass ==
    /\ pc = "mass"
    /\ mass' = _calculate_mass(agents)
    /\ pc' = "mass_done"
    /\ UNCHANGED <<alg, fn, hp, n_iterations, spaceVars, auxVars, history, t, driver,
                   err, log, walked, accepted, sbo_probs>>

\* a population of GSA that update has sorted by fit
InitMass ==
    /\ alg = "GSA"
    /\ fn \in {"py", "np"}
    /\ hp = [Defaults(alg) EXCEPT !.built = TRUE]
    /\ n_iterations = 1
    /\ \E q \in SortedFits : agents = [i \in 1..Len(q) |-> [id |-> i, fit |-> q[i]]]
    /\ heap = [i \in 0..NAgents |-> 0]
    /\ bestRef = 0
    /\ bestFit = 0
    /\ velocity = Zeros
    /\ frequency = <<>>
    /\ loudness = <<>>
    /\ pulse_rate = <<>>
    /\ history = <<>>
    /\ t = 0
    /\ driver = "caller"
    /\ pc = "mass"
    /\ err = "none"
    /\ log = <<>>
    /\ walked = {}
    /\ accepted = {}
    /\ mass = NoMass
    /\ sbo_probs = <<>>

NextMass == GSA_calculate_mass

SpecMass == InitMass /\ [][NextMass]_vars

\* ------------------------------------------- the selection probabilities of SBO
\* the fits of the populations the probabilities are computed for
ProbFitDraws == {0 - 2, 0 - 1, 0, 1, 4}

\* probs, as SBO.update computes them from the fits of the agents
SBO_calculate_probs ==
    /\ pc = "probs"
    /\ sbo_probs' = Probs(agents)
    /\ pc' = "probs_done"
    /\ UNCHANGED <<alg, fn, hp, n_iterations, spaceVars, auxVars, history, t, driver,
                   err, log, walked, accepted, mass>>

\* a population of SBO of 1 to NAgents agents, evaluated
InitProbs ==
    /\ alg = "SBO"
    /\ fn = "np"
    /\ hp = [Defaults(alg) EXCEPT !.built = TRUE]
    /\ n_iterations = 1
    /\ \E q \in UNION {[1..n -> ProbFitDraws] : n \in 1..NAgents} :
         agents = [i \in 1..Len(q) |-> [id |-> i, fit |-> q[i]]]
    /\ heap = [i \in 0..NAgents |-> 0]
    /\ bestRef = 0
    /\ bestFit = 0 - 2
    /\ velocity = <<>>
    /\ frequency = <<>>
    /\ loudness = <<>>
    /\ pulse_rate = <<>>
    /\ history = <<>>
    /\ t = 0
    /\ driver = "caller"
    /\ pc = "probs"
    /\ err = "none"
    /\ log = <<>>
    /\ walked = {}
    /\ accepted = {}
    /\ mass = NoMass
    /\ sbo_probs = <<>>

NextProbs == SBO_calculate_probs

SpecProbs == InitProbs /\ [][NextProbs]_vars

\* ------------------------------------------------------------ the properties
Last(s) == s[Len(s)]
Ops == [i \in 1..Len(log) |-> log[i].op]
LastOp == IF log = <<>> THEN "none" ELSE Last(log).op
Positions == [i \in 1..Len(agents) |-> heap[agents[i].id]]
BestPosition == heap[bestRef]
AllInBounds == \A i \in 1..Len(agents) : InBounds(Positions[i])
\* this step is the operation op
IsStep(op) == Len(log') = Len(log) + 1 /\ Last(log').op = op
Count(op) == Cardinality({i \in 1..Len(log) : log[i].op = op})

\* C1: of any two evaluate calls of a loop, the later leaves a best fit that is
\* not greater than the one the earlier left, whatever update and clip did to
\* the population in between.
C1_BestFitNeverIncreases ==
    \A i, j \in 1..Len(log) :
        (i < j /\ log[i].op = "evaluate" /\ log[j].op = "evaluate")
            => log[j].best <= log[i].best

\* C1, its case: an evaluate of an iteration found a fit strictly below the
\* best the evaluate before it had left.
C1_Witness ==
    \E i, j \in 1..Len(log) :
        /\ i < j
        /\ log[i].op = "evaluate"
        /\ log[j].op = "evaluate"
        /\ log[j].best < log[i].best

RECURSIVE CanonicalOps(_)
CanonicalOps(n) ==
    IF n = 0 THEN <<"evaluate">>
    ELSE CanonicalOps(n - 1) \o <<"update", "clip", "evaluate", "dump">>

IsPrefix(a, b) == Len(a) <= Len(b) /\ a = SubSeq(b, 1, Len(a))

\* C2: run evaluates once, then performs update, clip_by_bound, evaluate, dump
\* in that order in each of its n_iterations iterations: what run has executed
\* is at every moment a prefix of that sequence, and all of it when run returns.
C2_RunFollowsCanonicalOrder ==
    driver = "run" =>
        /\ IsPrefix(Ops, CanonicalOps(n_iterations))
        /\ pc = "done" => Ops = CanonicalOps(n_iterations)

\* the least objective value of the positions s
RECURSIVE MinObjective(_)
MinObjective(s) ==
    IF s = <<>> THEN FloatMax
    ELSE LET f == function(Head(s))
             m == MinObjective(Tail(s))
         IN IF Lt(f, m) THEN f ELSE m

\* C3: the history holds one snapshot for each dump, and a loop that returns has
\* run exactly n_iterations bodies and returns n_iterations snapshots; with
\* n_iterations = 0 there was the one evaluation and no update, the best fit is
\* the least objective value of the initial positions, and the history is empty.
C3_HistoryLength ==
    /\ Len(history) = Count("dump")
    /\ pc = "done" =>
        /\ t = n_iterations
        /\ Len(history) = n_iterations
        /\ Count("update") + Count("_update") = n_iterations
        /\ n_iterations = 0 =>
            /\ Ops = <<"evaluate">>
            /\ history = <<>>
            /\ bestFit = MinObjective(Positions)

\* C3, its case: run returned from a loop of no iterations, the population
\* evaluated.
C3_Witness ==
    /\ driver = "run"
    /\ pc = "done"
    /\ n_iterations = 0
    /\ bestFit < FloatMax
    /\ bestFit = MinObjective(Positions)

\* C4: the best agent's position is an array of its own, and its position and
\* fit change in no step but an evaluate that finds a strictly lower fit:
\* writes into an agent's array, rebinding and clipping leave them as they are.
C4_BestNeverAliases ==
    [][/\ bestRef' = 0
       /\ (BestPosition' # BestPosition \/ bestFit' # bestFit)
            => (IsStep("evaluate") /\ bestFit' < bestFit)]_vars

\* C4, its case: SBO's update has written into the arrays of the agents, and
\* the position the best agent was copied from is no agent's position any more.
C4_Witness ==
    /\ alg = "SBO"
    /\ LastOp = "update"
    /\ bestFit < FloatMax
    /\ bestRef = 0
    /\ \A i \in 1..Len(agents) : Positions[i] # BestPosition

\* C5: every position evaluated or recorded is within [lb, ub]: the positions
\* after an evaluate or a dump of the loop, those of every snapshot, and those
\* BA's and SBO's update evaluated inside update.
C5_EvaluatedPositionsInBounds ==
    /\ LastOp \in {"evaluate", "dump"} => AllInBounds
    /\ (LastOp = "update" /\ alg \in {"BA", "SBO"}) => AllInBounds
    /\ \A n \in 1..Len(history) : \A i \in 1..Len(history[n]) :
           InBounds(history[n][i][1])

\* C5, where it holds: GSA's update left a position outside the bounds, and
\* clip_by_bound brought it back before the evaluation.
C5_Witness ==
    /\ alg = "GSA"
    /\ LastOp = "evaluate"
    /\ Len(log) > 3
    /\ AllInBounds
    /\ \E i \in 1..Len(agents) : Positions[i] \in {Lb, Ub}
    /\ \E i \in 1..Len(agents) : velocity[i] # 0 /\ velocity[i] # NaN

\* the fits evaluate computes from the positions of this state
NewFits == [i \in 1..Len(agents) |-> function(Positions[i])]
\* the agents whose new fit is strictly below the best fit of this state
Improving == {i \in 1..Len(agents) : Lt(NewFits[i], bestFit)}
\* the least of the best fit and the new fits that are numbers
NewBest ==
    LET m == MinObjective(Positions) IN IF Lt(m, bestFit) THEN m ELSE bestFit

\* C6: an evaluate sets every agent's fit to the objective value of its
\* position and leaves the best fit at the least of its previous value and the
\* new fits; when no agent is strictly better, ties included, the best agent's
\* position and fit stay; else the first agent in list order that attains the
\* new minimum supplies the position.
C6_EvaluateTracksMinimum ==
    [][IsStep("evaluate") =>
        /\ \A i \in 1..Len(agents) : agents'[i].fit = NewFits[i]
        /\ bestFit' = NewBest
        /\ Improving = {} => (BestPosition' = BestPosition /\ bestFit' = bestFit)
        /\ Improving # {} =>
             LET first == CHOOSE i \in Improving :
                              /\ NewFits[i] = NewBest
                              /\ \A j \in Improving : NewFits[j] = NewBest => i <= j
             IN BestPosition' = Positions[first]]_vars

\* C6, its case: the first evaluate found its minimum at two agents of
\* different positions, and the best agent has the position of the first.
C6_Witness ==
    /\ Len(log) = 1
    /\ LastOp = "evaluate"
    /\ \E i, j \in 1..Len(agents) :
         /\ i < j
         /\ agents[i].fit = bestFit
         /\ agents[j].fit = bestFit
         /\ Positions[i] # Positions[j]
         /\ BestPosition = Positions[i]
         /\ \A k \in 1..(i - 1) : agents[k].fit # bestFit

\* C8: the update run performs is the algorithm's own: run never enters the
\* base class's _update, and no run ends in the error of that call.
C8_RunUsesOwnUpdate ==
    driver = "run" =>
        /\ Count("_update") = 0
        /\ err \notin {"TypeError", "NotImplementedError"}

\* C9: an update of BA entered with every pulse rate at 1.0 sends no agent on
\* the local random walk, whatever the draws, and whichever agents of the call
\* are accepted and have their pulse rate rewritten.
C9_NoWalkAtFullPulseRate ==
    [][(alg = "BA" /\ IsStep("update") /\ \A i \in Ids : pulse_rate[i] = Scale)
        => walked' = {}]_vars

\* C9, its case: the first update of BA, entered with the pulse rates the
\* caller set to 1.0, of which one is still 1.0; another agent was accepted and
\* has a pulse rate rewritten; no agent walked.
C9_Witness ==
    /\ alg = "BA"
    /\ LastOp = "update"
    /\ t = 0
    /\ walked = {}
    /\ \E i \in Ids : pulse_rate[i] = Scale
    /\ \E i \in Ids : pulse_rate[i] # Scale

\* a value of the mapping violates the setter of its property
Violates(c, k, v) ==
    /\ k \in Properties(c)
    /\ \/ v = NonNumeric
       \/ v < 0
       \/ k \in {"p_mutation", "z"} /\ v > Scale

\* C7: build raises TypeError when hyperparams is neither a mapping nor absent,
\* and TypeError or ValueError when a value of the mapping violates the setter
\* of its property; whenever build raises, built stays false and nothing has
\* been evaluated or iterated.
C7_BuildFailsEagerly ==
    /\ (pc # "new" /\ hp.params.kind = "other") => (pc = "failed" /\ err = "TypeError")
    /\ (pc # "new" /\ \E i \in 1..Len(hp.params.items) :
                          Violates(alg, hp.params.items[i][1], hp.params.items[i][2]))
         => (pc = "failed" /\ err \in {"TypeError", "ValueError"})
    /\ pc = "failed" =>
         /\ err \in {"TypeError", "ValueError"}
         /\ ~hp.built
         /\ log = <<>>
         /\ t = 0
         /\ history = <<>>
         /\ \A i \in 1..Len(agents) : agents[i].fit = FloatMax

\* C7, its case: a mapping whose first item was applied and whose second, a
\* p_mutation above 1, made build raise ValueError.
C7_Witness ==
    /\ pc = "failed"
    /\ err = "ValueError"
    /\ alg = "SBO"
    /\ Len(hp.params.items) = 2
    /\ hp.params.items[2][1] = "p_mutation"
    /\ hp.params.items[2][2] > Scale
    /\ hp.attr[hp.params.items[1][1]] = hp.params.items[1][2]
    /\ ~hp.built

\* C10: for a population sorted by fit whose best and worst fit differ, the raw
\* mass is 1 for the best agent, 0 for the worst and within [0, 1] for all; the
\* normalized masses are not negative and sum to 1; for the fits 0 and 10 the
\* raw and the normalized masses are 1 and 0.
C10_MassNormalized ==
    (pc = "mass_done" /\ agents[1].fit # agents[Len(agents)].fit) =>
        /\ mass.err = "none"
        /\ Len(mass.raw) = Len(agents)
        /\ Len(mass.norm) = Len(agents)
        /\ RatEq(mass.raw[1], <<1, 1>>)
        /\ RatEq(mass.raw[Len(agents)], <<0, 1>>)
        /\ \A i \in 1..Len(agents) :
             /\ RatLe(<<0, 1>>, mass.raw[i])
             /\ RatLe(mass.raw[i], <<1, 1>>)
             /\ RatLe(<<0, 1>>, mass.norm[i])
        /\ RatEq(RatSum(mass.norm), <<1, 1>>)
        /\ Fits(agents) = <<0, 10>> =>
             /\ RatEq(mass.raw[1], <<1, 1>>)
             /\ RatEq(mass.raw[2], <<0, 1>>)
             /\ RatEq(mass.norm[1], <<1, 1>>)
             /\ RatEq(mass.norm[2], <<0, 1>>)

\* C10, its case: the masses of the two agents of fits 0 and 10.
C10_Witness ==
    /\ pc = "mass_done"
    /\ Fits(agents) = <<0, 10>>
    /\ mass.err = "none"
    /\ mass.norm[1] = <<1, 1>>

RatLt(a, b) == RatLe(a, b) /\ ~RatEq(a, b)
\* the weight of a fit, as the claim states it
ClaimedWeight(fit) == IF fit >= 0 THEN <<1, 1 + fit>> ELSE <<1 - fit, 1>>

\* C11: the selection probabilities of SBO are in the proportion of the weights
\* 1/(1+fit) for fit >= 0 and 1+|fit| otherwise; all are strictly positive and
\* they sum to 1; a strictly lower fit has a strictly higher probability and
\* equal fits have equal probabilities; the fits 1, 1, 1 give 1/3 each.
C11_ProbsNormalized ==
    pc = "probs_done" =>
        /\ Len(sbo_probs) = Len(agents)
        /\ RatEq(RatSum(sbo_probs), <<1, 1>>)
        /\ \A i \in 1..Len(agents) : RatLt(<<0, 1>>, sbo_probs[i])
        /\ \A i, j \in 1..Len(agents) :
             /\ sbo_probs[i][1] * sbo_probs[j][2] * ClaimedWeight(agents[j].fit)[1]
                    * ClaimedWeight(agents[i].fit)[2]
                = sbo_probs[j][1] * sbo_probs[i][2] * ClaimedWeight(agents[i].fit)[1]
                    * ClaimedWeight(agents[j].fit)[2]
             /\ agents[i].fit < agents[j].fit => RatLt(sbo_probs[j], sbo_probs[i])
             /\ agents[i].fit = agents[j].fit => RatEq(sbo_probs[i], sbo_probs[j])
        /\ Fits(agents) = <<1, 1, 1>> =>
             \A i \in 1..3 : RatEq(sbo_probs[i], <<1, 3>>)

\* C11, its case: the probabilities of three agents of fit 1.
C11_Witness ==
    /\ pc = "probs_done"
    /\ Fits(agents) = <<1, 1, 1>>
    /\ sbo_probs = <<<<1, 3>>, <<1, 3>>, <<1, 3>>>>

C13_PulseUpLoudnessDown ==
    [][(/\ alg = "BA"
        /\ IsStep("update")
        /\ \A i \in 1..Len(agents) :
             /\ 0 <= pulse_rate[i] /\ pulse_rate[i] < hp.attr["r"]
             /\ 0 <= loudness[i] /\ loudness[i] < hp.attr["A"])
       => \A i \in 1..Len(agents) :
            IF agents[i].id \in accepted'
            THEN /\ pulse_rate'[i] >= pulse_rate[i]
                 /\ loudness'[i] <= loudness[i]
            ELSE /\ pulse_rate'[i] = pulse_rate[i]
                 /\ loudness'[i] = loudness[i]]_vars

\* The half of C13 the code keeps: an agent whose candidate was not accepted
\* leaves the update with its pulse rate and loudness as they were.
C13_RejectedKeepsSchedules ==
    [][(alg = "BA" /\ IsStep("update"))
       => \A i \in 1..Len(agents) :
            agents[i].id \notin accepted'
            => (pulse_rate'[i] = pulse_rate[i] /\ loudness'[i] = loudness[i])]_vars

\* An update of BA has accepted one agent's candidate and not another's.
C13_Witness ==
    /\ alg = "BA"
    /\ LastOp = "update"
    /\ accepted # {}
    /\ accepted # Ids


\* C14: a BA object keeps f_max >= f_min: after its defaults and after a build
\* whose assignments all succeeded, whatever the order of the keys f_min and
\* f_max in the mapping.
C14_FmaxAtLeastFmin ==
    (alg = "BA" /\ pc # "failed") => hp.attr["f_max"] >= hp.attr["f_min"]

\* A build of BA has assigned both f_max and f_min with success, f_max first.
C14_Witness ==
    /\ alg = "BA"
    /\ pc = "idle"
    /\ hp.built
    /\ Len(hp.hyperparams.items) = 2
    /\ hp.hyperparams.items[1][1] = "f_max"
    /\ hp.hyperparams.items[2][1] = "f_min"


\* the place in the list agents of the agent with identity k
IndexOf(k) == CHOOSE j \in 1..Len(agents) : agents[j].id = k

\* C15: in an update of GSA over numbers, the velocity row read for the agent
\* that the sort puts at place i is the row that agent left the previous
\* update with, and the sort leaves the same agents in the list.
C15_VelocityFollowsAgent ==
    [][(/\ alg = "GSA"
        /\ IsStep("update")
        /\ ~HasNaN(velocity)
        /\ ~HasNaN(Fits(agents)))
       => /\ \A i \in 1..Len(agents') :
               velocity[i] = velocity[IndexOf(agents'[i].id)]
          /\ {agents'[i].id : i \in 1..Len(agents')} = Ids]_vars

\* A second update of GSA has run over velocities that differ between agents.
C15_Witness ==
    /\ alg = "GSA"
    /\ LastOp = "update"
    /\ Count("update") >= 2
    /\ err = "none"
    /\ ~HasNaN(velocity)
    /\ \E i, j \in 1..Len(velocity) : velocity[i] # velocity[j]


\* a == b and a <= b of two floats: both are false when either is NaN
FloatEq(a, b) == a # NaN /\ b # NaN /\ a = b
FloatLe(a, b) == a # NaN /\ b # NaN /\ a <= b

\* what a snapshot taken now shows: every agent's fit is the objective of its
\* position, and so is the best agent's, whose fit no agent's fit is below
SnapshotConsistent ==
    /\ \A i \in 1..Len(agents) :
         /\ FloatEq(agents[i].fit, function(Positions[i]))
         /\ FloatLe(bestFit, agents[i].fit)
    /\ FloatEq(bestFit, function(BestPosition))

\* C16: at each snapshot every agent's fit is the objective value of its
\* position, the best agent's fit is the objective value of the best agent's
\* position, and the best agent's fit is at most every agent's fit.
C16_SnapshotConsistent == LastOp = "dump" => SnapshotConsistent

\* C16 where every position in the snapshot is a number.
C16_NumbersSnapshotConsistent ==
    (LastOp = "dump" /\ \A i \in 1..Len(agents) : Positions[i] # NaN)
        => SnapshotConsistent

\* A snapshot of numbers was taken after an update moved an agent to a fit
\* above the best agent's.
C16_Witness ==
    /\ LastOp = "dump"
    /\ SnapshotConsistent
    /\ Count("update") >= 1
    /\ \E i \in 1..Len(agents) : bestFit < agents[i].fit
    /\ \E i \in 1..Len(agents) : Positions[i] # BestPosition


\* C17, as stated: when build raises, the stored hyperparams mapping and every
\* attribute, the keys before the rejected one included, are what they were
\* before the build.
C17_BuildAllOrNothing ==
    pc = "failed"
        => /\ hp.hyperparams = Defaults(alg).hyperparams
           /\ hp.attr = Defaults(alg).attr
           /\ ~hp.built

\* the value the items before place j give the name a, or old when none does
PrefixValue(items, j, a, old) ==
    IF \E i \in 1..(j - 1) : items[i][1] = a
    THEN items[CHOOSE i \in 1..(j - 1) : items[i][1] = a][2]
    ELSE old

\* C17, amended: when build raises, built stays false; params that are not a
\* mapping leave the object as it was; a mapping with a rejected item is
\* already stored as hyperparams, the items before the first rejected one are
\* assigned, and the rejected item and the items after it are not.
C17_BuildFailureKeepsPrefix ==
    pc = "failed"
        => /\ ~hp.built
           /\ err \in {"TypeError", "ValueError"}
           /\ IF hp.params.kind = "other"
              THEN /\ hp.hyperparams = Defaults(alg).hyperparams
                   /\ hp.attr = Defaults(alg).attr
              ELSE /\ hp.hyperparams = hp.params
                   /\ \E j \in 1..Len(hp.params.items) :
                        /\ \A a \in AttrNames :
                             hp.attr[a] = PrefixValue(hp.params.items, j, a,
                                                      Defaults(alg).attr[a])
                        /\ SetAttr(alg, hp.attr, hp.params.items[j][1],
                                   hp.params.items[j][2]).err = err

\* A build has raised on the second item of a mapping after its first item
\* gave an attribute a value other than the default.
C17_Witness ==
    /\ pc = "failed"
    /\ hp.params.kind = "dict"
    /\ Len(hp.params.items) = 2
    /\ hp.attr[hp.params.items[1][1]] = hp.params.items[1][2]
    /\ hp.attr[hp.params.items[1][1]] # Defaults(alg).attr[hp.params.items[1][1]]
    /\ hp.attr[hp.params.items[2][1]] = Defaults(alg).attr[hp.params.items[2][1]]
    /\ hp.hyperparams = hp.params

====
